---- MODULE Spec2Model ----
(***************************************************************************)
(* ARCropolis overlay core: the shared file index (ARC_FILES) filled by    *)
(* directory scans and callback registrations, the size negotiation        *)
(* against the archive's size table, the mod-directory conflict check and  *)
(* the incoming-file byte counter of ModFileSystem.                        *)
(*                                                                         *)
(* Strings are sequences of one-character strings, so that find, slicing   *)
(* and replace_range are computed the way the code does.  A Hash40 is      *)
(* modelled by the string it was computed from (hash collisions are not    *)
(* modelled).  A FileData is modelled by its decomp_size, the only field   *)
(* the code reads or writes.                                               *)
(***************************************************************************)
EXTENDS Integers, Sequences, FiniteSets, TLC

\* ------------------------------------------------------------------ bounds
\* Largest file size on disk, callback size and archive decomp_size.
MaxSize == 3
\* Largest number of calls (scans, registrations, negotiations of indexed
\* records) in one behaviour.
MaxOps == 2

\* ------------------------------------------------------------ string helpers
Max(S) == CHOOSE x \in S : \A y \in S : y <= x

\* str::find of a one-character pattern: 1-based index of the first match, 0 for None.
Find(s, c) ==
    IF \E i \in 1..Len(s) : s[i] = c
    THEN CHOOSE i \in 1..Len(s) : s[i] = c /\ \A j \in 1..(i - 1) : s[j] # c
    ELSE 0

\* str::replace of one character by another.
Replace(s, a, b) == [i \in 1..Len(s) |-> IF s[i] = a THEN b ELSE s[i]]

\* String::replace_range(i..j, "") with 1-based i, j (j exclusive); the caller checks i <= j.
RemoveRange(s, i, j) == SubSeq(s, 1, i - 1) \o SubSeq(s, j, Len(s))

EndsWith(s, suf) ==
    /\ Len(suf) <= Len(s)
    /\ SubSeq(s, Len(s) - Len(suf) + 1, Len(s)) = suf

StartsWith(s, pre) ==
    /\ Len(pre) <= Len(s)
    /\ SubSeq(s, 1, Len(pre)) = pre

\* Path::extension() of a path whose final component is name: Some unless the
\* name has no '.', or its only '.' is the first character.
HasExtension(name) == \E i \in 2..Len(name) : name[i] = "."

\* format!("{}/{}", dir, name)
JoinPath(dir, name) == dir \o <<"/">> \o name

\* ------------------------------------------------------------------ the disk
\* Directory entries as fs::read_dir yields them: the directory they are in,
\* their name, their kind, the length metadata() reports, and whether
\* metadata() and read_dir() of the entry succeed.
File(dir, name, size) ==
    [dir |-> dir, name |-> name, kind |-> "file", size |-> size,
     metaOk |-> TRUE, readable |-> TRUE]

Dir(dir, name) ==
    [dir |-> dir, name |-> name, kind |-> "dir", size |-> 0,
     metaOk |-> TRUE, readable |-> TRUE]

RootArc == <<"m">>
RootUmm == <<"u">>
RootGone == <<"g">>

NameAX   == <<"a", ".", "x">>
NameAUs  == <<"a", "+", "u", "s", "_", "e", "n", ".", "x">>
NameAJp  == <<"a", "+", "j", "p", "_", "j", "a", ".", "x">>
NameCX   == <<"c", ".", "x">>
NameD    == <<"d">>
NameMod1 == <<"1">>
NameMod2 == <<"2">>
\* A tag that names no region, a tag of two characters, a dot before the tag.
NameAZz  == <<"a", "+", "z", "z", "_", "z", "z", ".", "x">>
NameBUs  == <<"b", "+", "u", "s", ".", "x">>
NameABUs == <<"a", ".", "b", "+", "u", "s", "_", "e", "n", ".", "x">>
\* Hidden entries and a file without extension.
NameDotG == <<".", "g">>
NameDotH == <<".", "h", ".", "x">>
NameN    == <<"n">>

RootTags == <<"t">>
RootBad  == <<"b">>
RootDot  == <<"h">>

\* Entries whose metadata() or read_dir() fails.
NoMeta(entry) == [entry EXCEPT !.metaOk = FALSE]
NoRead(entry) == [entry EXCEPT !.readable = FALSE]

Disk ==
    { File(RootArc, NameAX, 1),
      File(RootArc, NameAUs, 2),
      File(RootArc, NameAJp, MaxSize),
      Dir(RootArc, NameD),
      File(JoinPath(RootArc, NameD), NameCX, 2),
      Dir(RootUmm, NameMod1),
      Dir(RootUmm, NameMod2),
      File(RootUmm, NameCX, 1),
      File(JoinPath(RootUmm, NameMod1), NameAX, MaxSize),
      Dir(JoinPath(RootUmm, NameMod2), NameAX),
      File(RootTags, NameAZz, 1),
      File(RootTags, NameBUs, 1),
      File(RootTags, NameABUs, 1),
      File(RootBad, NameAX, 1),
      NoMeta(File(RootBad, NameCX, 1)),
      NoRead(Dir(RootBad, NameD)),
      Dir(RootDot, NameDotG),
      File(JoinPath(RootDot, NameDotG), NameCX, 1),
      File(RootDot, NameDotH, 1),
      File(RootDot, NameN, 1) }

\* The calls of scan_path(path, umm); RootGone does not exist.
ScanCalls == {<<RootArc, FALSE>>, <<RootUmm, TRUE>>, <<RootGone, FALSE>>}
\* The calls on the directories of ill-formed entries as well.
AllScanCalls ==
    ScanCalls \cup {<<RootTags, FALSE>>, <<RootBad, FALSE>>, <<RootDot, FALSE>>}
ExistingRoots == {RootArc, RootUmm, RootTags, RootBad, RootDot}

\* fs::read_dir(dir): the entries of dir.
ReadDir(dir) == {e \in Disk : e.dir = dir}

\* ------------------------------------------------------- archive and inputs
HashAX == NameAX
HashZX == <<"z", ".", "x">>

\* The fingerprints the archive's tables know.
ArcHashes == {HashAX}
\* The fingerprints callbacks are registered for.
SubHashes == {HashAX, HashZX}
Extensions == {<<"x">>}
Callbacks == {"cb"}
\* The values ResServiceState::regular_region_idx takes.
Regions == {0, 1}

\* FileCtx::new()
NewFileCtx ==
    [path |-> <<>>, hash |-> <<>>, filesize |-> 0, virtual_file |-> FALSE,
     orig_subfile |-> 0]

VirtualPath(ext) ==
    <<"r", "o", "m", ":", "/", "v", "i", "r", "t", "u", "a", "l", ".">> \o ext

VARIABLES
    arcFiles,      \* ARC_FILES.0: Hash40 -> FileCtx
    arcCallbacks,  \* ARC_CALLBACKS: Hash40 -> ArcCallback
    cbQueue,       \* CB_QUEUE: Hash40 -> FileCtx
    queueHandled,  \* QUEUE_HANDLED
    arcTable,      \* the loaded archive's FileData.decomp_size per known hash
    region,        \* ResServiceState::regular_region_idx
    arcLock,       \* who holds ARC_FILES' write lock: "free", "scan"
    stack,         \* the scan's call stack of visit_umm_dirs / visit_dir frames
    sub,           \* the registering thread's position in subscribe_callback*
    crashed,       \* a panic aborted the process
    origTable,     \* history: arcTable as the archive was loaded
    negotiated,    \* history: the candidate sizes negotiated per known hash
    ingested,      \* history: the last candidate the running scan ingested per hash
    last,          \* history: what the last step did
    nops,          \* history: calls begun
    incoming_file,   \* ModFileSystem::incoming_file, NoHash for None
    remaining_bytes, \* ModFileSystem::remaining_bytes
    fileLen,       \* the length metadata() reports for each of ModFileSystem::files
    fsHist,        \* history: the chunks consumed since set_incoming_file
    modpack,       \* check_for_conflicts' Modpack::mods
    conflicts,     \* the ConflictManager's Vec<ConflictV2>
    cfPc,          \* "input" before check_for_conflicts, "checked" after
    cfInput,       \* history: the mods check_for_conflicts was called with
    mgrHist        \* history: the last call on the ConflictManager

fsVars == <<incoming_file, remaining_bytes, fileLen, fsHist>>

cfVars == <<modpack, conflicts, cfPc, cfInput, mgrHist>>

idxVars == <<arcFiles, arcCallbacks, cbQueue, queueHandled, arcTable, region,
             arcLock, stack, sub, crashed, origTable, negotiated, ingested,
             last, nops>>

\* ------------------------------------------------------------ FileCtx methods
Tag(a, b, c, d, e) == <<a, b, c, d, e>>

\* The match arms of get_region.
RegionTags ==
    << Tag("j", "p", "_", "j", "a"), Tag("u", "s", "_", "e", "n"),
       Tag("u", "s", "_", "f", "r"), Tag("u", "s", "_", "e", "s"),
       Tag("e", "u", "_", "e", "n"), Tag("e", "u", "_", "f", "r"),
       Tag("e", "u", "_", "e", "s"), Tag("e", "u", "_", "d", "e"),
       Tag("e", "u", "_", "n", "l"), Tag("e", "u", "_", "i", "t"),
       Tag("e", "u", "_", "r", "u"), Tag("k", "r", "_", "k", "o"),
       Tag("z", "h", "_", "c", "n"), Tag("z", "h", "_", "t", "w") >>

RegionPanic == 0 - 1

\* get_region that skips the match on the tag.
GetRegionAny(name, reg) == reg

\* FileCtx::get_region for a path whose file name is name, with reg the
\* player's region index; RegionPanic when the slice is out of bounds.
GetRegion(name, reg) ==
    IF ~HasExtension(name) THEN reg
    ELSE LET marker == Find(name, "+") IN
         IF marker = 0 THEN reg
         ELSE IF marker + 5 > Len(name) THEN RegionPanic
         ELSE LET tag == SubSeq(name, marker + 1, marker + 5) IN
              IF \E i \in 1..Len(RegionTags) : RegionTags[i] = tag
              THEN (CHOOSE i \in 1..Len(RegionTags) : RegionTags[i] = tag) - 1
              ELSE 1

\* filesize_replacement without the comparison of line 329.
FilesizeReplacementAssign(ctx, table) ==
    IF ctx.hash \notin DOMAIN table
    THEN [ctx |-> ctx, table |-> table]
    ELSE [ctx |-> [ctx EXCEPT !.orig_subfile = table[ctx.hash]],
          table |-> [table EXCEPT ![ctx.hash] = ctx.filesize]]

\* filesize_replacement that adds an entry for a hash the archive lacks.
FilesizeReplacementAdd(ctx, table) ==
    [ctx |-> IF ctx.hash \in DOMAIN table
             THEN [ctx EXCEPT !.orig_subfile = table[ctx.hash]] ELSE ctx,
     table |-> [h \in (DOMAIN table) \cup {ctx.hash} |->
                  IF h \in DOMAIN table /\ (h # ctx.hash \/ table[h] >= ctx.filesize)
                  THEN table[h] ELSE ctx.filesize]]

\* FileCtx::filesize_replacement on ctx against the size table: the ctx and
\* the table afterwards.
FilesizeReplacement(ctx, table) ==
    IF ctx.hash \notin DOMAIN table
    THEN [ctx |-> ctx, table |-> table]
    ELSE [ctx |-> [ctx EXCEPT !.orig_subfile = table[ctx.hash]],
          table |-> IF table[ctx.hash] < ctx.filesize
                    THEN [table EXCEPT ![ctx.hash] = ctx.filesize]
                    ELSE table]

\* ------------------------------------------------------------- visit_file
\* The path that gets hashed, or <<"!">> when replace_range panics.
PanicPath == <<"!">>

GamePath(full_path, arc_dir_len) ==
    LET sliced == SubSeq(full_path, arc_dir_len + 2, Len(full_path))
        colons == Replace(sliced, ";", ":")
        marker == Find(colons, "+")
        dot    == Find(colons, ".")
        mp4    == <<"m", "p", "4">>
        webm   == <<"w", "e", "b", "m">>
    IN  IF marker # 0 /\ (dot = 0 \/ marker > dot) THEN PanicPath
        ELSE LET stripped == IF marker # 0 THEN RemoveRange(colons, marker, dot)
                             ELSE colons
             IN  IF EndsWith(stripped, mp4)
                 THEN SubSeq(stripped, 1, Len(stripped) - 3) \o webm
                 ELSE stripped

Outcome(tag, why, ctx) == [tag |-> tag, why |-> why, ctx |-> ctx]

\* ArcFiles::visit_file: "ok" with the FileCtx, "err" (the entry is skipped
\* with a warning) or "panic", and which of its checks decided.
VisitFile(entry, full_path, arc_dir_len, reg) ==
    LET game_path == GamePath(full_path, arc_dir_len)
        ctx == [NewFileCtx EXCEPT !.path = full_path, !.hash = game_path,
                                  !.filesize = entry.size]
        got == GetRegion(entry.name, reg)
    IN  IF StartsWith(entry.name, <<".">>) THEN Outcome("err", "period", NewFileCtx)
        ELSE IF ~HasExtension(entry.name) THEN Outcome("err", "extension", NewFileCtx)
        ELSE IF game_path = PanicPath THEN Outcome("panic", "panic_range", NewFileCtx)
        ELSE IF ~entry.metaOk THEN Outcome("panic", "panic_metadata", NewFileCtx)
        ELSE IF got = RegionPanic THEN Outcome("panic", "panic_slice", NewFileCtx)
        ELSE IF got # reg THEN Outcome("err", "region", NewFileCtx)
        ELSE Outcome("ok", "ok", ctx)

\* ------------------------------------------------------------------- state
\* HashMap::insert
Put(map, key, value) ==
    [k \in (DOMAIN map) \cup {key} |-> IF k = key THEN value ELSE map[k]]

EmptyMap == [k \in {} |-> NewFileCtx]

Idle == [pc |-> "idle", ctx |-> NewFileCtx, cb |-> "none"]

\* The record of a step: the operation, the hash and size it worked with,
\* whether the hash had a record in ARC_FILES before it, the backup
\* (orig_subfile) of the FileCtx it negotiated before and after, and the name
\* of the directory entry (or the directory) a scan step was about.
Step(op, hash, size, existed, before, backup) ==
    [op |-> op, hash |-> hash, size |-> size, existed |-> existed,
     before |-> before, backup |-> backup, name |-> <<>>]

Note(op) == Step(op, <<>>, 0, FALSE, 0, 0)

Seen(op, name) == [Note(op) EXCEPT !.name = name]

Frame(dir, umm, len) == [dir |-> dir, rest |-> ReadDir(dir), umm |-> umm, len |-> len]

IdxInit ==
    /\ arcFiles = EmptyMap
    /\ arcCallbacks = [k \in {} |-> "none"]
    /\ cbQueue = EmptyMap
    /\ queueHandled = FALSE
    /\ arcTable \in [ArcHashes -> {1, 2}]
    /\ origTable = arcTable
    /\ region \in Regions
    /\ arcLock = "free"
    /\ stack = <<>>
    /\ sub = Idle
    /\ crashed = FALSE
    /\ negotiated = [h \in ArcHashes |-> {}]
    /\ ingested = [k \in {} |-> <<>>]
    /\ last = Note("init")
    /\ nops = 0

\* The history of a negotiation of ctx.
Noted(ctx) ==
    IF ctx.hash \in ArcHashes
    THEN [negotiated EXCEPT ![ctx.hash] = @ \cup {ctx.filesize}]
    ELSE negotiated

\* ------------------------------------------------- callback registrations
\* The code that stores TRUE to QUEUE_HANDLED is outside the two files; the
\* flag only ever goes from false to true.
HandleQueue ==
    /\ ~crashed
    /\ ~queueHandled
    /\ queueHandled' = TRUE
    /\ last' = Note("queue_handled")
    /\ UNCHANGED <<arcFiles, arcCallbacks, cbQueue, arcTable, region, arcLock,
                   stack, sub, crashed, origTable, negotiated, ingested, nops>>

\* subscribe_callback up to the write of ARC_FILES or CB_QUEUE.
SubscribeCallback(hash, ext, cb) ==
    LET ctx == [NewFileCtx EXCEPT !.hash = hash, !.path = VirtualPath(ext),
                                  !.virtual_file = TRUE]
    IN  /\ ~crashed
        /\ sub.pc = "idle"
        /\ nops < MaxOps
        /\ nops' = nops + 1
        /\ IF queueHandled
           THEN /\ sub' = [pc |-> "files", ctx |-> ctx, cb |-> cb]
                /\ UNCHANGED cbQueue
           ELSE /\ cbQueue' = Put(cbQueue, hash, ctx)
                /\ sub' = [pc |-> "callbacks", ctx |-> ctx, cb |-> cb]
        /\ last' = Step("subscribe", hash, 0, hash \in DOMAIN arcFiles, 0, 0)
        /\ UNCHANGED <<arcFiles, arcCallbacks, queueHandled, arcTable, region,
                       arcLock, stack, crashed, origTable, negotiated,
                       ingested>>

\* subscribe_callback_with_size up to the write of ARC_FILES or CB_QUEUE:
\* once the queue is handled the new FileCtx is negotiated first.
SubscribeCallbackWithSize(hash, filesize, ext, cb) ==
    LET ctx == [NewFileCtx EXCEPT !.hash = hash, !.filesize = filesize,
                                  !.path = VirtualPath(ext),
                                  !.virtual_file = TRUE]
        res == FilesizeReplacement(ctx, arcTable)
    IN  /\ ~crashed
        /\ sub.pc = "idle"
        /\ nops < MaxOps
        /\ nops' = nops + 1
        /\ IF queueHandled
           THEN /\ arcTable' = res.table
                /\ negotiated' = Noted(ctx)
                /\ sub' = [pc |-> "files", ctx |-> res.ctx, cb |-> cb]
                /\ last' = Step("negotiate", hash, filesize,
                                hash \in DOMAIN arcFiles, ctx.orig_subfile,
                                res.ctx.orig_subfile)
                /\ UNCHANGED cbQueue
           ELSE /\ cbQueue' = Put(cbQueue, hash, ctx)
                /\ sub' = [pc |-> "callbacks", ctx |-> ctx, cb |-> cb]
                /\ last' = Step("subscribe", hash, filesize,
                                hash \in DOMAIN arcFiles, 0, 0)
                /\ UNCHANGED <<arcTable, negotiated>>
        /\ UNCHANGED <<arcFiles, arcCallbacks, queueHandled, region, arcLock,
                       stack, crashed, origTable, ingested>>

\* ARC_FILES.write().0.insert(hash, file_ctx)
SubscribeInsertFile ==
    /\ ~crashed
    /\ sub.pc = "files"
    /\ arcLock = "free"
    /\ arcFiles' = Put(arcFiles, sub.ctx.hash, sub.ctx)
    /\ sub' = [sub EXCEPT !.pc = "callbacks"]
    /\ last' = Step("register", sub.ctx.hash, sub.ctx.filesize,
                    sub.ctx.hash \in DOMAIN arcFiles, 0, 0)
    /\ UNCHANGED <<arcCallbacks, cbQueue, queueHandled, arcTable, region,
                   arcLock, stack, crashed, origTable, negotiated, ingested, nops>>

\* ARC_CALLBACKS.write().insert(hash, callback)
SubscribeInsertCallback ==
    /\ ~crashed
    /\ sub.pc = "callbacks"
    /\ arcCallbacks' = Put(arcCallbacks, sub.ctx.hash, sub.cb)
    /\ sub' = Idle
    /\ last' = Step("callback", sub.ctx.hash, sub.ctx.filesize,
                    sub.ctx.hash \in DOMAIN arcFiles, 0, 0)
    /\ UNCHANGED <<arcFiles, cbQueue, queueHandled, arcTable, region, arcLock,
                   stack, crashed, origTable, negotiated, ingested, nops>>

\* filesize_replacement called on a FileCtx held in ARC_FILES.
Renegotiate(hash) ==
    LET res == FilesizeReplacement(arcFiles[hash], arcTable)
    IN  /\ ~crashed
        /\ arcLock = "free"
        /\ nops < MaxOps
        /\ nops' = nops + 1
        /\ arcFiles' = [arcFiles EXCEPT ![hash] = res.ctx]
        /\ arcTable' = res.table
        /\ negotiated' = Noted(arcFiles[hash])
        /\ last' = Step("negotiate", hash, arcFiles[hash].filesize, TRUE,
                        arcFiles[hash].orig_subfile, res.ctx.orig_subfile)
        /\ UNCHANGED <<arcCallbacks, cbQueue, queueHandled, region, arcLock,
                       stack, sub, crashed, origTable, ingested>>

\* ------------------------------------------------------------------ scans
\* On the target the DirEntry's path() is the entry's name, which the code
\* joins to the directory it is listing.
EntryPath(frame, entry) == JoinPath(frame.dir, entry.name)

Pop(frame, entry) == [frame EXCEPT !.rest = @ \ {entry}]

\* A panic, or an io::Error that reaches an unwrap(): the process aborts.
Abort(op, name) ==
    /\ crashed' = TRUE
    /\ last' = Seen(op, name)
    /\ UNCHANGED <<arcFiles, arcCallbacks, cbQueue, queueHandled, arcTable,
                   region, arcLock, stack, sub, origTable, negotiated,
                   ingested, nops>>

\* scan_path: take ARC_FILES' write lock and open the directory.
ScanPath(path, umm) ==
    /\ ~crashed
    /\ arcLock = "free"
    /\ nops < MaxOps
    /\ IF path \notin ExistingRoots
       THEN Abort("panic_root", path)
       ELSE /\ arcLock' = "scan"
            /\ nops' = nops + 1
            /\ stack' = <<Frame(path, umm, Len(path))>>
            /\ ingested' = [k \in {} |-> <<>>]
            /\ last' = Note("scan")
            /\ UNCHANGED <<arcFiles, arcCallbacks, cbQueue, queueHandled,
                           arcTable, region, sub, crashed, origTable,
                           negotiated>>

\* The scan leaves entry behind without touching the index.
Skip(op, entry) ==
    /\ stack' = <<Pop(Head(stack), entry)>> \o Tail(stack)
    /\ last' = Seen(op, entry.name)
    /\ UNCHANGED <<arcFiles, arcCallbacks, cbQueue, queueHandled, arcTable,
                   region, arcLock, sub, crashed, origTable, negotiated,
                   ingested, nops>>

\* The scan calls visit_dir on the directory entry.
Descend(entry) ==
    LET path == EntryPath(Head(stack), entry)
        len  == IF Head(stack).umm THEN Len(path) ELSE Head(stack).len
    IN  IF ~entry.readable
        THEN Abort("panic_read_dir", entry.name)
        ELSE /\ stack' = <<Frame(path, FALSE, len), Pop(Head(stack), entry)>>
                         \o Tail(stack)
             /\ last' = Seen("descend", entry.name)
             /\ UNCHANGED <<arcFiles, arcCallbacks, cbQueue, queueHandled,
                            arcTable, region, arcLock, sub, crashed, origTable,
                            negotiated, ingested, nops>>

\* One iteration of visit_umm_dirs' loop.
VisitUmmEntry ==
    /\ ~crashed
    /\ stack # <<>>
    /\ Head(stack).umm
    /\ \E entry \in Head(stack).rest :
          IF StartsWith(entry.name, <<".">>) THEN Skip("hidden", entry)
          ELSE IF entry.kind = "dir" THEN Descend(entry)
          ELSE Skip("not_dir", entry)

\* visit_dir inserting the FileCtx of a regular file as it does a directory's.
IngestFileInsert(index, ctx) == [k \in (DOMAIN index) \cup {ctx.hash} |->
                                    IF k = ctx.hash THEN ctx ELSE index[k]]

\* What visit_dir does with the FileCtx of a regular file: a record that is
\* already there only gets the new filesize.
IngestFile(index, ctx) ==
    IF ctx.hash \in DOMAIN index
    THEN [index EXCEPT ![ctx.hash].filesize = ctx.filesize]
    ELSE Put(index, ctx.hash, ctx)

\* What visit_dir does with the FileCtx of a directory that has an extension.
IngestDir(index, ctx) == Put(index, ctx.hash, ctx)

Ingest(entry, ctx) ==
    /\ arcFiles' = IF entry.kind = "dir" THEN IngestDir(arcFiles, ctx)
                   ELSE IngestFile(arcFiles, ctx)
    /\ ingested' = Put(ingested, ctx.hash, ctx)
    /\ stack' = <<Pop(Head(stack), entry)>> \o Tail(stack)
    /\ last' = [Step(IF entry.kind = "dir" THEN "ingest_dir" ELSE "ingest_file",
                     ctx.hash, ctx.filesize, ctx.hash \in DOMAIN arcFiles, 0, 0)
                     EXCEPT !.name = entry.name]
    /\ UNCHANGED <<arcCallbacks, cbQueue, queueHandled, arcTable, region,
                   arcLock, sub, crashed, origTable, negotiated, nops>>

\* One call of visit_dir's closure.
VisitDirEntry ==
    /\ ~crashed
    /\ stack # <<>>
    /\ ~Head(stack).umm
    /\ \E entry \in Head(stack).rest :
          LET frame == Head(stack)
              res == VisitFile(entry, EntryPath(frame, entry), frame.len, region)
          IN  IF entry.kind = "dir" /\ ~HasExtension(entry.name)
              THEN Descend(entry)
              ELSE CASE res.tag = "ok" -> Ingest(entry, res.ctx)
                     [] res.tag = "err" -> Skip(res.why, entry)
                     [] OTHER -> Abort(res.why, entry.name)

\* visit_dir or visit_umm_dirs has no entry left and returns Ok(()); the
\* outermost return drops scan_path's write guard.
ScanReturn ==
    /\ ~crashed
    /\ stack # <<>>
    /\ Head(stack).rest = {}
    /\ stack' = Tail(stack)
    /\ arcLock' = IF Tail(stack) = <<>> THEN "free" ELSE arcLock
    /\ last' = Seen(IF Tail(stack) # <<>> THEN "return"
                     ELSE IF Head(stack).umm THEN "scanned_umm" ELSE "scanned",
                     Head(stack).dir)
    /\ UNCHANGED <<arcFiles, arcCallbacks, cbQueue, queueHandled, arcTable,
                   region, sub, crashed, origTable, negotiated, ingested, nops>>

\* ARC_FILES.read() succeeds at once: no writer holds the lock.
CanRead == arcLock = "free"

\* get_from_hash!: take the read lock and look the hash up.
Lookup(hash) ==
    /\ ~crashed
    /\ CanRead
    /\ nops < MaxOps
    /\ nops' = nops + 1
    /\ last' = Step("lookup", hash,
                    IF hash \in DOMAIN arcFiles THEN arcFiles[hash].filesize ELSE 0,
                    hash \in DOMAIN arcFiles, 0, 0)
    /\ UNCHANGED <<arcFiles, arcCallbacks, cbQueue, queueHandled, arcTable,
                   region, arcLock, stack, sub, crashed, origTable, negotiated,
                   ingested>>

\* ---------------------------------------------------------- ModFileSystem
NoHash == <<>>
HashCX == NameCX

\* The keys of ModFileSystem::files; set_incoming_file is also called with HashZX.
FsKnown == {HashAX, HashCX}
FsHashes == {HashAX, HashCX, HashZX}

\* Largest file length and chunk size, and the most chunks consumed after
\* one set_incoming_file.
MaxLen == 3
MaxChunk == 4
MaxChunks == 3

FsStart ==
    [op |-> "new", ret |-> NoHash, marked |-> NoHash, len |-> 0,
     consumed |-> 0, chunks |-> 0, was |-> FALSE, pending |-> FALSE,
     dropped |-> NoHash, lost |-> 0]

\* ModFileSystem::new
FsNew ==
    /\ incoming_file = NoHash
    /\ remaining_bytes = 0
    /\ fsHist = FsStart

FsInit ==
    /\ FsNew
    /\ fileLen \in [FsKnown -> 0..MaxLen]

\* set_incoming_file adding the new file's length to the bytes still expected.
IncomingLengthAdd(hash, remaining) == remaining + fileLen[hash]

\* The value set_incoming_file assigns to remaining_bytes: the length of the
\* file of hash, whatever remaining_bytes was.
IncomingLength(hash, remaining) == fileLen[hash]

\* ModFileSystem::set_incoming_file: files.get(&hash).unwrap() panics for a
\* hash that is not in files, after the previous incoming file was taken.
\* dropped and lost keep the incoming file the call replaced and the bytes
\* that had been consumed for it.
SetIncomingFile(hash) ==
    /\ ~crashed
    /\ IF hash \in FsKnown
       THEN /\ incoming_file' = hash
            /\ remaining_bytes' = IncomingLength(hash, remaining_bytes)
            /\ fsHist' = [op |-> "set", ret |-> NoHash, marked |-> hash,
                          len |-> fileLen[hash], consumed |-> 0, chunks |-> 0,
                          was |-> FALSE, pending |-> TRUE,
                          dropped |-> incoming_file,
                          lost |-> IF fsHist.pending THEN fsHist.consumed ELSE 0]
            /\ UNCHANGED crashed
       ELSE /\ incoming_file' = NoHash
            /\ crashed' = TRUE
            /\ fsHist' = [fsHist EXCEPT !.op = "panic", !.ret = NoHash,
                                        !.pending = FALSE]
            /\ UNCHANGED remaining_bytes
    /\ UNCHANGED fileLen

\* ModFileSystem::get_incoming_file
GetIncomingFile ==
    /\ ~crashed
    /\ incoming_file' = NoHash
    /\ fsHist' = [fsHist EXCEPT !.op = "get", !.ret = incoming_file,
                                !.pending = FALSE]
    /\ UNCHANGED <<remaining_bytes, fileLen, crashed>>

\* sub_remaining_bytes comparing with > where the code has >=.
SubRemainingStrict(size, incoming, remaining) ==
    IF size > remaining
    THEN [ret |-> incoming, incoming |-> NoHash, remaining |-> remaining]
    ELSE [ret |-> NoHash, incoming |-> incoming, remaining |-> remaining - size]

\* sub_remaining_bytes returning the incoming file without taking it.
SubRemainingPeek(size, incoming, remaining) ==
    IF size >= remaining
    THEN [ret |-> incoming, incoming |-> incoming, remaining |-> remaining]
    ELSE [ret |-> NoHash, incoming |-> incoming, remaining |-> remaining - size]

\* The result of sub_remaining_bytes(size) with the fields as given: what it
\* returns and the fields afterwards.
SubRemaining(size, incoming, remaining) ==
    IF size >= remaining
    THEN [ret |-> incoming, incoming |-> NoHash, remaining |-> remaining]
    ELSE [ret |-> NoHash, incoming |-> incoming, remaining |-> remaining - size]

\* ModFileSystem::sub_remaining_bytes
SubRemainingBytes(size) ==
    LET res == SubRemaining(size, incoming_file, remaining_bytes)
    IN  /\ ~crashed
        /\ fsHist.chunks < MaxChunks
        /\ incoming_file' = res.incoming
        /\ remaining_bytes' = res.remaining
        /\ fsHist' = [fsHist EXCEPT
                        !.op = "sub", !.ret = res.ret,
                        !.chunks = @ + 1,
                        !.consumed = IF fsHist.pending THEN @ + size ELSE @,
                        !.was = fsHist.pending,
                        !.pending = fsHist.pending /\ res.ret = NoHash]
        /\ UNCHANGED <<fileLen, crashed>>

\* ------------------------------------------------------ check_for_conflicts
\* The most mods of a Modpack.
MaxMods == 3

ModFile(path, size) == [path |-> path, size |-> size]

ModDir(root, files, patches) == [root |-> root, files |-> files, patches |-> patches]

FileLists ==
    { <<>>,
      <<ModFile("p", 1)>>,
      <<ModFile("p", 2)>>,
      <<ModFile("q", 1)>>,
      <<ModFile("p", 1), ModFile("q", 1)>>,
      <<ModFile("q", 1), ModFile("p", 2)>> }

ModDirs ==
    {ModDir(root, files, <<>>) : root \in {"A", "B", "C"}, files \in FileLists}
    \cup {ModDir("A", <<ModFile("p", 1)>>, <<"x">>)}

\* An equality of ModFile that leaves the size out.
SameFilePath(a, b) == a.path = b.path

\* ModFile's derived PartialEq
SameFile(a, b) == a.path = b.path /\ a.size = b.size

\* ModDir's derived PartialEq: root, files and patches
SameDir(a, b) ==
    /\ a.root = b.root
    /\ Len(a.files) = Len(b.files)
    /\ \A i \in 1..Len(a.files) : SameFile(a.files[i], b.files[i])
    /\ a.patches = b.patches

\* dir.files.iter().any(|file| curr_files.contains(&file))
Conflicting(dir, curr_dir) ==
    \E i \in 1..Len(dir.files) :
        \E j \in 1..Len(curr_dir.files) : SameFile(curr_dir.files[j], dir.files[i])

\* The ConflictV2 values the closure of flat_map yields for curr_dir.
ConflictsOf(mods, curr_dir) ==
    LET kept == SelectSeq(mods, LAMBDA dir :
                    ~SameDir(dir, curr_dir) /\ Conflicting(dir, curr_dir))
    IN  [n \in 1..Len(kept) |-> [first |-> curr_dir, second |-> kept[n]]]

RECURSIVE FlatMap(_, _)
FlatMap(mods, i) ==
    IF i > Len(mods) THEN <<>>
    ELSE ConflictsOf(mods, mods[i]) \o FlatMap(mods, i + 1)

\* A drain_filter whose dropped iterator removes nothing.
DrainFilterLazy(mods, found) == mods

\* mods.drain_filter(..), dropped at once: the drop removes every mod the
\* predicate holds of.
DrainFilter(mods, found) ==
    SelectSeq(mods, LAMBDA m :
        ~\E n \in 1..Len(found) :
            SameDir(found[n].first, m) \/ SameDir(found[n].second, m))

\* The most records of a ConflictManager.
MaxConflicts == 3

NoDir == ModDir("", <<>>, <<>>)

ConflictV2(first, second) == [first |-> first, second |-> second]

\* The mods the ConflictManager's records name: two roots with the same
\* files, and one that differs from the first in its patches only.
MgrDirs ==
    { ModDir("A", <<ModFile("p", 1)>>, <<>>),
      ModDir("B", <<ModFile("p", 1)>>, <<>>),
      ModDir("A", <<ModFile("p", 1)>>, <<"x">>) }

\* The records check_for_conflicts can hand to ConflictManager::from.
MgrConflicts == {ConflictV2(m[1], m[2]) : m \in {p \in MgrDirs \X MgrDirs : p[1] # p[2]}}

MgrStart ==
    [op |-> "from", dir |-> NoDir, ret |-> <<>>, before |-> <<>>, gone |-> {}]

CfIdle ==
    /\ modpack = <<>>
    /\ conflicts = <<>>
    /\ cfPc = "input"
    /\ cfInput = <<>>
    /\ mgrHist = MgrStart

CfInit ==
    /\ modpack \in UNION {[1..n -> ModDirs] : n \in 0..MaxMods}
    /\ conflicts = <<>>
    /\ cfPc = "input"
    /\ cfInput = modpack
    /\ mgrHist = MgrStart

CheckForConflicts ==
    /\ cfPc = "input"
    /\ conflicts' = FlatMap(modpack, 1)
    /\ modpack' = DrainFilter(modpack, FlatMap(modpack, 1))
    /\ cfPc' = "checked"
    /\ UNCHANGED <<cfInput, mgrHist>>

\* ConflictManager::from
MgrInit ==
    /\ modpack = <<>>
    /\ conflicts \in UNION {[1..n -> MgrConflicts] : n \in 0..MaxConflicts}
    /\ cfPc = "manager"
    /\ cfInput = <<>>
    /\ mgrHist = MgrStart

\* rebase removing only the records whose first member is dir.
RebaseFirst(records, dir) ==
    LET Keep(c) == ~(c.first = dir)
    IN  SelectSeq(records, Keep)

\* The records ConflictManager::rebase leaves: drain_filter removes those
\* whose first or second member equals dir.
Rebase(records, dir) ==
    LET Keep(c) == ~(c.first = dir \/ c.second = dir)
    IN  SelectSeq(records, Keep)

\* ConflictManager::rebase
RebaseDir(dir) ==
    /\ cfPc = "manager"
    /\ conflicts' = Rebase(conflicts, dir)
    /\ mgrHist' = [op |-> "rebase", dir |-> dir, ret |-> <<>>,
                   before |-> conflicts, gone |-> mgrHist.gone \cup {dir}]
    /\ UNCHANGED <<modpack, cfPc, cfInput>>

\* ConflictManager::next: Vec::pop
NextConflict ==
    /\ cfPc = "manager"
    /\ conflicts' = IF conflicts = <<>> THEN <<>>
                    ELSE SubSeq(conflicts, 1, Len(conflicts) - 1)
    /\ mgrHist' = [mgrHist EXCEPT
                     !.op = "next", !.dir = NoDir, !.before = conflicts,
                     !.ret = IF conflicts = <<>> THEN <<>>
                             ELSE <<conflicts[Len(conflicts)]>>]
    /\ UNCHANGED <<modpack, cfPc, cfInput>>

\* --------------------------------------------------------- specifications
\* The index and the archive's table at rest, for the specifications of the
\* other components.
IdxIdle ==
    /\ arcFiles = EmptyMap
    /\ arcCallbacks = [k \in {} |-> "none"]
    /\ cbQueue = EmptyMap
    /\ queueHandled = FALSE
    /\ arcTable = [h \in ArcHashes |-> 1]
    /\ origTable = arcTable
    /\ region = 0
    /\ arcLock = "free"
    /\ stack = <<>>
    /\ sub = Idle
    /\ crashed = FALSE
    /\ negotiated = [h \in ArcHashes |-> {}]
    /\ ingested = [k \in {} |-> <<>>]
    /\ last = Note("init")
    /\ nops = 0

FsIdle ==
    /\ FsNew
    /\ fileLen = [h \in FsKnown |-> 0]

vars == <<idxVars, fsVars, cfVars>>

\* The shared index: scans, registrations and negotiations.
Init == IdxInit /\ FsIdle /\ CfIdle

Next ==
    \/ HandleQueue /\ UNCHANGED <<fsVars, cfVars>>
    \/ \E h \in SubHashes, e \in Extensions, c \in Callbacks :
          SubscribeCallback(h, e, c) /\ UNCHANGED <<fsVars, cfVars>>
    \/ \E h \in SubHashes, n \in 1..MaxSize, e \in Extensions, c \in Callbacks :
          SubscribeCallbackWithSize(h, n, e, c) /\ UNCHANGED <<fsVars, cfVars>>
    \/ SubscribeInsertFile /\ UNCHANGED <<fsVars, cfVars>>
    \/ SubscribeInsertCallback /\ UNCHANGED <<fsVars, cfVars>>
    \/ \E h \in DOMAIN arcFiles : Renegotiate(h) /\ UNCHANGED <<fsVars, cfVars>>
    \/ \E call \in ScanCalls :
          ScanPath(call[1], call[2]) /\ UNCHANGED <<fsVars, cfVars>>
    \/ VisitUmmEntry /\ UNCHANGED <<fsVars, cfVars>>
    \/ VisitDirEntry /\ UNCHANGED <<fsVars, cfVars>>
    \/ ScanReturn /\ UNCHANGED <<fsVars, cfVars>>
    \/ \E h \in SubHashes : Lookup(h) /\ UNCHANGED <<fsVars, cfVars>>

Spec == Init /\ [][Next]_vars

\* The scans alone, over every directory of the disk.
ScanNext ==
    \/ \E call \in AllScanCalls :
          ScanPath(call[1], call[2]) /\ UNCHANGED <<fsVars, cfVars>>
    \/ VisitUmmEntry /\ UNCHANGED <<fsVars, cfVars>>
    \/ VisitDirEntry /\ UNCHANGED <<fsVars, cfVars>>
    \/ ScanReturn /\ UNCHANGED <<fsVars, cfVars>>

ScanSpec == Init /\ [][ScanNext]_vars

\* The ModFileSystem's incoming-file protocol.
FsRest ==
    UNCHANGED <<arcFiles, arcCallbacks, cbQueue, queueHandled, arcTable, region,
                arcLock, stack, sub, origTable, negotiated, ingested, last,
                nops, cfVars>>

FsNext ==
    \/ \E h \in FsHashes : SetIncomingFile(h) /\ FsRest
    \/ GetIncomingFile /\ FsRest
    \/ \E size \in 0..MaxChunk : SubRemainingBytes(size) /\ FsRest

FsSpecInit == IdxIdle /\ FsInit /\ CfIdle

FsSpec == FsSpecInit /\ [][FsNext]_vars

\* The conflict check of a Modpack.
CfNext == CheckForConflicts /\ UNCHANGED <<idxVars, fsVars>>

CfSpecInit == IdxIdle /\ FsIdle /\ CfInit

CfSpec == CfSpecInit /\ [][CfNext]_vars

\* The ConflictManager.
MgrNext ==
    \/ \E d \in MgrDirs : RebaseDir(d) /\ UNCHANGED <<idxVars, fsVars>>
    \/ NextConflict /\ UNCHANGED <<idxVars, fsVars>>

MgrSpecInit == IdxIdle /\ FsIdle /\ MgrInit

MgrSpec == MgrSpecInit /\ [][MgrNext]_vars

\* ------------------------------------------------------------------ claims
\* C1: when a flat scan (scan_path without umm, i.e. visit_dir) has returned,
\* every fingerprint it ingested candidates for has one record in ARC_FILES,
\* and that record's path and filesize are those of the last candidate
\* ingested for the fingerprint.
C1_LastWriterWins ==
    last.op = "scanned" =>
        \A h \in DOMAIN ingested :
            /\ h \in DOMAIN arcFiles
            /\ arcFiles[h].path = ingested[h].path
            /\ arcFiles[h].filesize = ingested[h].filesize

\* C2: a step in which visit_dir ingests a regular file whose hash already
\* has a record changes that record's filesize to the file's and nothing
\* else: its path, hash, virtual_file and orig_subfile stay, no record is
\* added or removed and every other record stays as it was.
C2_SizeOnlyUpdate ==
    [][(last'.op = "ingest_file" /\ last'.existed) =>
          /\ DOMAIN arcFiles' = DOMAIN arcFiles
          /\ arcFiles'[last'.hash].filesize = last'.size
          /\ arcFiles'[last'.hash].path = arcFiles[last'.hash].path
          /\ arcFiles'[last'.hash].hash = arcFiles[last'.hash].hash
          /\ arcFiles'[last'.hash].virtual_file = arcFiles[last'.hash].virtual_file
          /\ arcFiles'[last'.hash].orig_subfile = arcFiles[last'.hash].orig_subfile
          /\ \A h \in DOMAIN arcFiles : h # last'.hash => arcFiles'[h] = arcFiles[h]
      ]_vars

\* A regular file of another size has just been ingested over a record that
\* a callback registration put into the index.
C2_Witness ==
    /\ last.op = "ingest_file"
    /\ last.existed
    /\ last.size > 0
    /\ arcFiles[last.hash].virtual_file
    /\ arcFiles[last.hash].filesize = last.size
    /\ arcFiles[last.hash].path = VirtualPath(<<"x">>)

\* C3: the decomp_size the archive's table holds for a known hash is the
\* largest of its original value and every candidate size negotiated for
\* the hash so far.
C3_TableIsMax ==
    \A h \in ArcHashes : arcTable[h] = Max({origTable[h]} \cup negotiated[h])

\* Two different sizes were negotiated for a hash, the table was raised, and
\* the last negotiation, of a smaller candidate, left it raised.
C3_Witness ==
    /\ last.op = "negotiate"
    /\ last.hash = HashAX
    /\ Cardinality(negotiated[HashAX]) >= 2
    /\ arcTable[HashAX] > origTable[HashAX]
    /\ last.size < arcTable[HashAX]

\* C4: the backup (orig_subfile) of a FileCtx that has just been negotiated
\* for a hash the archive knows is the archive's original table entry for
\* that hash, however many negotiations ran before.
C4_BackupIsOriginal ==
    (last.op = "negotiate" /\ last.hash \in ArcHashes) =>
        last.backup = origTable[last.hash]

\* C5: once a scan has inserted a record for a file of a hash the archive
\* knows, the archive's decomp_size for the hash is at least the file's size
\* (and at least its original value).
C5_NegotiatedOnInsert ==
    (last.op \in {"ingest_file", "ingest_dir"} /\ ~last.existed
        /\ last.hash \in ArcHashes) =>
        arcTable[last.hash] >= Max({origTable[last.hash], last.size})

\* C6: a negotiation for a hash the archive's table lacks leaves the table
\* and the negotiated FileCtx's backup as they were, and does not panic.
C6_MissingCounterpart ==
    [][(last'.op = "negotiate" /\ last'.hash \notin ArcHashes) =>
          /\ arcTable' = arcTable
          /\ last'.backup = last'.before
          /\ ~crashed'
      ]_vars

\* A FileCtx with a size has just been negotiated for a hash the archive lacks.
C6_Witness ==
    /\ last.op = "negotiate"
    /\ last.hash = HashZX
    /\ last.size > 0
    /\ sub.pc = "files"
    /\ sub.ctx.hash = HashZX

\* Whether conflict names the directories a and b, in either order.
Names(conflict, a, b) ==
    \/ SameDir(conflict.first, a) /\ SameDir(conflict.second, b)
    \/ SameDir(conflict.first, b) /\ SameDir(conflict.second, a)

\* Whether some returned ConflictV2 names dir.
Named(dir) ==
    \E n \in 1..Len(conflicts) :
        SameDir(conflicts[n].first, dir) \/ SameDir(conflicts[n].second, dir)

Accepted(dir) == \E k \in 1..Len(modpack) : SameDir(modpack[k], dir)

\* Whether a and b have an entry with the same path and the same size.
SharesEntry(a, b) ==
    \E i \in 1..Len(a.files) : \E j \in 1..Len(b.files) :
        a.files[i].path = b.files[j].path /\ a.files[i].size = b.files[j].size

SharesPath(a, b) ==
    \E i \in 1..Len(a.files) : \E j \in 1..Len(b.files) :
        a.files[i].path = b.files[j].path

\* C7: for two input directories with different roots that both hold an
\* entry with the same path and size, check_for_conflicts returns exactly
\* one ConflictV2 naming the two.
C7_OneRecordPerPair ==
    cfPc = "checked" =>
        \A i, j \in 1..Len(cfInput) :
            (i < j /\ cfInput[i].root # cfInput[j].root
                /\ SharesEntry(cfInput[i], cfInput[j])) =>
                Cardinality({n \in 1..Len(conflicts) :
                    Names(conflicts[n], cfInput[i], cfInput[j])}) = 1

\* C8: after check_for_conflicts an input directory is in the returned
\* modpack exactly if no returned ConflictV2 names it, and the returned
\* modpack holds input directories only.
C8_AcceptedIffUnnamed ==
    cfPc = "checked" =>
        /\ \A i \in 1..Len(cfInput) : Accepted(cfInput[i]) <=> ~Named(cfInput[i])
        /\ \A k \in 1..Len(modpack) :
              \E i \in 1..Len(cfInput) : SameDir(cfInput[i], modpack[k])

\* Of three input directories two conflict and are removed, the third is kept.
C8_Witness ==
    /\ cfPc = "checked"
    /\ Len(cfInput) = 3
    /\ Len(modpack) = 1
    /\ ~Named(modpack[1])
    /\ Named(cfInput[1])
    /\ Len(conflicts) >= 2

\* C9: two input directories that share paths but no entry of the same path
\* and size are named together by no ConflictV2, and when they are the whole
\* input both are in the returned modpack and nothing is reported.
C9_SizeMismatchNoConflict ==
    cfPc = "checked" =>
        \A i, j \in 1..Len(cfInput) :
            (i # j /\ SharesPath(cfInput[i], cfInput[j])
                /\ ~SharesEntry(cfInput[i], cfInput[j])) =>
                /\ \A n \in 1..Len(conflicts) :
                      ~Names(conflicts[n], cfInput[i], cfInput[j])
                /\ Len(cfInput) = 2 => (conflicts = <<>> /\ modpack = cfInput)

\* Two directories with different roots hold the same path with different sizes.
C9_Witness ==
    /\ cfPc = "checked"
    /\ Len(cfInput) = 2
    /\ cfInput[1].root # cfInput[2].root
    /\ SharesPath(cfInput[1], cfInput[2])
    /\ ~SharesEntry(cfInput[1], cfInput[2])
    /\ modpack = cfInput

\* C10: while only chunks have been consumed since set_incoming_file(F) and
\* none has returned Some yet, a chunk consumption returns Some(F) if the
\* bytes consumed since, this chunk included, reach the file's length, and
\* None if they do not.
C10_ChunkProtocol ==
    (fsHist.op = "sub" /\ fsHist.was) =>
        fsHist.ret = IF fsHist.consumed >= fsHist.len THEN fsHist.marked
                     ELSE NoHash

\* The third chunk brings the bytes consumed to exactly the file's length.
C10_Witness ==
    /\ fsHist.op = "sub"
    /\ fsHist.was
    /\ fsHist.chunks = 3
    /\ fsHist.len > 0
    /\ fsHist.consumed = fsHist.len
    /\ fsHist.ret = fsHist.marked
    /\ fsHist.ret # NoHash

\* C11: at most one file is incoming. set_incoming_file(G) while F is still
\* pending does not fail: G becomes the incoming file and remaining_bytes is
\* G's full length, whatever had been consumed for F; and whatever
\* sub_remaining_bytes or get_incoming_file returns afterwards is the file
\* marked last, never the replaced F.
C11_OneIncoming ==
    /\ incoming_file \in {NoHash, fsHist.marked}
    /\ fsHist.op = "set" =>
          /\ ~crashed
          /\ incoming_file = fsHist.marked
          /\ remaining_bytes = fileLen[fsHist.marked]
          /\ fsHist.consumed = 0
    /\ fsHist.op \in {"sub", "get"} /\ fsHist.ret # NoHash =>
          fsHist.ret = fsHist.marked

\* set_incoming_file(G) replaced a pending F # G of which bytes had been consumed.
C11_Witness ==
    /\ fsHist.op = "set"
    /\ fsHist.dropped # NoHash
    /\ fsHist.dropped # fsHist.marked
    /\ fsHist.lost > 0
    /\ fsHist.len > 0

\* C20: once sub_remaining_bytes returned the incoming file, or
\* get_incoming_file took it, every further sub_remaining_bytes returns None
\* until the next set_incoming_file; remaining_bytes never goes below zero.
C20_OneCompletion ==
    /\ fsHist.op = "sub" /\ ~fsHist.was => fsHist.ret = NoHash
    /\ remaining_bytes >= 0

\* A chunk was consumed after the chunks of the marked file had completed it.
C20_Witness ==
    /\ fsHist.op = "sub"
    /\ ~fsHist.was
    /\ fsHist.marked # NoHash
    /\ fsHist.len > 0
    /\ fsHist.consumed >= fsHist.len
    /\ fsHist.chunks >= 2
    /\ fsHist.ret = NoHash

\* C19: after rebase(d) no record of the ConflictManager names d as first or
\* second member, and the records that did not name d are all still there,
\* unchanged and in the same order; no later next() returns a record that
\* names d.
C19_RebaseFrame ==
    /\ \A n \in 1..Len(conflicts) :
          conflicts[n].first \notin mgrHist.gone /\ conflicts[n].second \notin mgrHist.gone
    /\ mgrHist.op = "rebase" =>
          LET before == mgrHist.before
              kept == {i \in 1..Len(before) :
                          before[i].first # mgrHist.dir /\ before[i].second # mgrHist.dir}
          IN  /\ Len(conflicts) = Cardinality(kept)
              /\ \A i \in kept :
                    conflicts[Cardinality({j \in kept : j <= i})] = before[i]
    /\ mgrHist.op = "next" /\ mgrHist.ret # <<>> =>
          mgrHist.ret[1].first \notin mgrHist.gone /\ mgrHist.ret[1].second \notin mgrHist.gone

\* rebase(d) removed the middle one of three records and kept the two around it.
C19_Witness ==
    /\ mgrHist.op = "rebase"
    /\ Len(mgrHist.before) = 3
    /\ mgrHist.before[2].second = mgrHist.dir
    /\ conflicts = <<mgrHist.before[1], mgrHist.before[3]>>
    /\ mgrHist.before[1] # mgrHist.before[3]

\* The file name of a path, and whether the name carries the i-th tag of
\* get_region's table after its first '+'.
FileName(path) ==
    LET slashes == {i \in 1..Len(path) : path[i] = "/"}
    IN  IF slashes = {} THEN path ELSE SubSeq(path, Max(slashes) + 1, Len(path))

TaggedWith(name, i) ==
    LET marker == Find(name, "+")
    IN  /\ marker # 0
        /\ marker + 5 <= Len(name)
        /\ SubSeq(name, marker + 1, marker + 5) = RegionTags[i]

Ingests == {"ingest_file", "ingest_dir"}

\* C12: a file without a region tag is never skipped for its region; a file
\* whose name carries a recognized region tag is ingested only if the tag's
\* index is the active region; no record of the index comes from a file tagged
\* with a recognized region other than the active one.
C12_RegionFilter ==
    /\ last.op = "region" => Find(last.name, "+") # 0
    /\ last.op \in Ingests =>
          \A i \in 1..Len(RegionTags) : TaggedWith(last.name, i) => i - 1 = region
    /\ \A h \in DOMAIN arcFiles :
          \A i \in 1..Len(RegionTags) :
             TaggedWith(FileName(arcFiles[h].path), i) => i - 1 = region

\* A file tagged with another region was skipped while the index holds the
\* record of a file tagged with the active one.
C12_Witness ==
    /\ last.op = "region"
    /\ \E i \in 1..Len(RegionTags) : TaggedWith(last.name, i) /\ i - 1 # region
    /\ \E h \in DOMAIN arcFiles :
          TaggedWith(FileName(arcFiles[h].path), region + 1)

UnknownTag(name) ==
    /\ Find(name, "+") # 0
    /\ \A i \in 1..Len(RegionTags) : ~TaggedWith(name, i)

\* C13: a file whose '+' tag is not recognized, a tag shorter than five
\* characters included, gets the region of an untagged file, the active
\* region: it is neither skipped for its region nor does region selection fail.
C13_UnknownTagIsDefault ==
    (HasExtension(last.name) /\ UnknownTag(last.name)) =>
        last.op \notin {"region", "panic_slice"}

\* The path with the part from its first '+' up to its final '.' removed.
StripTag(path) ==
    LET marker == Find(path, "+")
        dots == {i \in 1..Len(path) : path[i] = "."}
    IN  IF marker = 0 \/ dots = {} \/ Max(dots \cup {0}) < marker THEN path
        ELSE SubSeq(path, 1, marker - 1) \o SubSeq(path, Max(dots), Len(path))

\* C14: normalization removes exactly the part from the '+' up to the final
\* '.', however many '.' the path has, so that a tagged path gets the hash of
\* its untagged counterpart, and normalizing the result again changes nothing.
C14_StripToFinalDot ==
    /\ last.op # "panic_range"
    /\ (last.op \in Ingests /\ stack # <<>>) =>
          LET path == ingested[last.hash].path
              len == Head(stack).len
              rel == SubSeq(path, len + 2, Len(path))
          IN  /\ last.hash = StripTag(rel)
              /\ GamePath(SubSeq(path, 1, len + 1) \o last.hash, len) = last.hash

\* C15: the scan holds ARC_FILES' write lock for one insert or update only:
\* between two of them a lookup gets the read lock.
C15_PerEntryLocking ==
    (last.op \in Ingests /\ \E n \in 1..Len(stack) : stack[n].rest # {}) => CanRead

\* C16: when the root of a scan cannot be opened, the call returns an error
\* to its caller and leaves the index as it was.
C16_RootErrorReported ==
    [][last'.op = "panic_root" => (~crashed' /\ arcFiles' = arcFiles)]_vars

\* C17: an entry that is hidden, has no extension, whose metadata or whose
\* directory cannot be read, or whose region does not match, is skipped: the
\* scan goes on, ingests every other eligible entry and completes.
C17_EntryFailuresSkipped ==
    /\ last.op \notin {"panic_metadata", "panic_read_dir"}
    /\ last.op = "scanned" =>
          \A e \in ReadDir(last.name) :
             LET res == VisitFile(e, JoinPath(last.name, e.name), Len(last.name), region)
             IN  (HasExtension(e.name) /\ res.tag = "ok") =>
                    res.ctx.hash \in DOMAIN ingested

HiddenComponent(path) ==
    \E i \in 1..Len(path) : path[i] = "." /\ (i = 1 \/ path[i - 1] = "/")

\* C18: no record of the index comes from a file or directory whose name
\* begins with '.', nor from a file beneath a directory whose name does.
C18_NoHiddenRecords ==
    \A h \in DOMAIN arcFiles : ~HiddenComponent(arcFiles[h].path)

\* C21: in every state in which a reader can take ARC_FILES' read lock, each
\* virtual record of ARC_FILES has a callback registered for its hash in
\* ARC_CALLBACKS, however the calls of subscribe_callback and
\* subscribe_callback_with_size interleave with the readers.
C21_VirtualHasCallback ==
    CanRead =>
        \A h \in DOMAIN arcFiles :
            arcFiles[h].virtual_file => h \in DOMAIN arcCallbacks

====
